---- MODULE Spec2Model ----
(***************************************************************************)
(* A model of makeup/net.py: the Generator of the makeup-transfer network. *)
(*                                                                         *)
(* Generator.forward_atten is modelled as the straight-line program it is, *)
(* one action per pipeline stage, over tensors that carry                  *)
(*   sh : the tensor's shape, computed with the shape arithmetic of the    *)
(*        layers (convolution, transposed convolution, interpolate,        *)
(*        repeat, broadcasting, cat, view, bmm), and                       *)
(*   v  : the tensor's value as a term in prefix notation over the         *)
(*        sub-modules' names (every sub-module is a deterministic function *)
(*        of its inputs and its own parameters, so equal terms are equal   *)
(*        values).                                                         *)
(* Generator.get_weight is modelled a second time with numbers, on small   *)
(* tensors, for the claims about the softmax and the sparse encoding.      *)
(***************************************************************************)
EXTENDS Integers, Sequences, FiniteSets, TLC

VARIABLES
    mode,      \* "values" or "shapes": which family of inputs the calls draw from
    pc,        \* position in forward_atten: idle, in, down, bneck, fuse, up, out, done
    i,         \* loop index of the current for-loop
    args,      \* the arguments of the current call
    s,         \* local s (style branch)
    c_tnet,    \* local c_tnet (content branch)
    gamma,     \* local gamma
    beta,      \* local beta
    trace,     \* the sub-modules and methods invoked by the current call, in order
    result,    \* what the current call returned or raised
    history,   \* the finished calls (arguments and result)
    st_fn,     \* static-method harness: which static method was called last
    gw_in,     \* get_weight on numbers: its arguments
    gw_out,    \* get_weight on numbers: the sparse tensor it returned
    af_in,     \* atten_feature: its arguments
    af_out     \* atten_feature: what it returned ([gamma, beta]) or raised

vars == <<mode, pc, i, args, s, c_tnet, gamma, beta, trace, result, history,
          st_fn, gw_in, gw_out, af_in, af_out>>

fwdVars == <<mode, pc, i, args, s, c_tnet, gamma, beta, trace, result, history>>
staticVars == <<st_fn, gw_in, gw_out, af_in, af_out>>

(***************************************************************************)
(* Bounds of the model.                                                    *)
(***************************************************************************)
\* finished calls remembered in a session
MaxCalls == 3
\* spatial positions of the small tensors get_weight is computed on (stands for 64*64)
NPos == 2
\* the base standing for e^200 in the softmax: exp(200 * r) is ExpBase^r
ExpBase == 2
\* largest channel count atten_feature is called with directly
MaxChan == 2

(***************************************************************************)
(* Program constants.                                                      *)
(***************************************************************************)
\* get_weight: batch_size = 3, and the repeat(3, 1, 1, 1) of the features
BatchSize == 3
\* get_weight: F.interpolate(mask, size=64)
FeatSize == 64
\* get_weight: HW = 64 * 64
HW == 64 * 64
\* get_weight: weight *= 200
Sharpen == 200
\* get_weight: fea * 0.01, as a division by 100
FeaDiv == 100
\* Generator.__init__: channel widths
Dim64 == 64
Dim128 == 128
Dim256 == 256
\* docstrings: the difference tensors have 136 channels
DiffDim == 136

(***************************************************************************)
(* Tensors.                                                                *)
(***************************************************************************)
Tensor(sh, v) == [sh |-> sh, v |-> v]
NoneT == [sh |-> <<>>, v |-> <<"None">>]
Err == [sh |-> <<>>, v |-> <<"Error">>]
IsErr(t) == t = Err
\* a tensor operand that is a 4-d tensor
Is4d(t) == t # Err /\ t # NoneT /\ Len(t.sh) = 4
Is3d(t) == t # Err /\ t # NoneT /\ Len(t.sh) = 3

RECURSIVE Prod(_)
Prod(sh) == IF sh = <<>> THEN 1 ELSE Head(sh) * Prod(Tail(sh))

\* nn.Conv2d(cin, cout, kernel_size=k, stride=st, padding=p, bias=False)
Conv2d(name, cin, cout, k, st, p, x) ==
    IF ~Is4d(x) THEN Err
    ELSE IF x.sh[2] # cin \/ x.sh[3] + 2 * p < k \/ x.sh[4] + 2 * p < k THEN Err
    ELSE Tensor(<<x.sh[1], cout, (x.sh[3] + 2 * p - k) \div st + 1,
                  (x.sh[4] + 2 * p - k) \div st + 1>>, <<name>> \o x.v)

\* a transposed convolution whose output size leaves the padding out
ConvTranspose2dNoPad(name, cin, cout, k, st, p, x) ==
    IF x = Err \/ x = NoneT \/ Len(x.sh) # 4 THEN Err
    ELSE IF x.sh[2] # cin THEN Err
    ELSE Tensor(<<x.sh[1], cout, (x.sh[3] - 1) * st + k, (x.sh[4] - 1) * st + k>>,
                <<name>> \o x.v)

\* nn.ConvTranspose2d(cin, cout, kernel_size=k, stride=st, padding=p, bias=False)
ConvTranspose2d(name, cin, cout, k, st, p, x) ==
    IF ~Is4d(x) THEN Err
    ELSE IF x.sh[2] # cin THEN Err
    ELSE Tensor(<<x.sh[1], cout, (x.sh[3] - 1) * st - 2 * p + k,
                  (x.sh[4] - 1) * st - 2 * p + k>>, <<name>> \o x.v)

\* nn.InstanceNorm2d followed by nn.ReLU(inplace=True): shape preserving
NormRelu(name, x) ==
    IF ~Is4d(x) THEN Err ELSE Tensor(x.sh, <<name>> \o x.v)

\* nn.Sequential(Conv2d, InstanceNorm2d, ReLU)
ConvNormRelu(name, cin, cout, k, st, p, x) ==
    NormRelu(name, Conv2d("conv", cin, cout, k, st, p, x))


Max2(a, b) == IF a >= b THEN a ELSE b

\* the shape of a broadcast of two shapes of equal rank, <<>> when they do not broadcast
Broadcast(sa, sb) ==
    IF Len(sa) # Len(sb) THEN <<>>
    ELSE IF \A k \in 1..Len(sa) : sa[k] = sb[k] \/ sa[k] = 1 \/ sb[k] = 1
         THEN [k \in 1..Len(sa) |-> Max2(sa[k], sb[k])]
         ELSE <<>>

\* a * b and a + b of two tensors, with broadcasting
Elementwise(name, a, b) ==
    IF a = Err \/ a = NoneT \/ b = Err \/ b = NoneT THEN Err
    ELSE IF Broadcast(a.sh, b.sh) = <<>> THEN Err
    ELSE Tensor(Broadcast(a.sh, b.sh), <<name>> \o a.v \o b.v)

\* F.interpolate(x, size=(h, w))
Interpolate(x, h, w) ==
    IF ~Is4d(x) THEN Err ELSE Tensor(<<x.sh[1], x.sh[2], h, w>>, <<"interpolate">> \o x.v)

\* x.repeat(r1, r2, 1, 1)
Repeat(x, r1, r2) ==
    IF ~Is4d(x) THEN Err
    ELSE Tensor(<<x.sh[1] * r1, x.sh[2] * r2, x.sh[3], x.sh[4]>>, <<"repeat">> \o x.v)

\* fea * 0.01
Scale001(x) == IF x = Err \/ x = NoneT THEN Err ELSE Tensor(x.sh, <<"mul0.01">> \o x.v)

\* torch.cat((a, b), dim=1)
Cat1(a, b) ==
    IF ~Is4d(a) \/ ~Is4d(b) THEN Err
    ELSE IF a.sh[1] # b.sh[1] \/ a.sh[3] # b.sh[3] \/ a.sh[4] # b.sh[4] THEN Err
    ELSE Tensor(<<a.sh[1], a.sh[2] + b.sh[2], a.sh[3], a.sh[4]>>, <<"cat">> \o a.v \o b.v)

\* x.view(b, -1, n): the same data under another shape
View3(x, b, n) ==
    IF x = Err \/ x = NoneT THEN Err
    ELSE IF Prod(x.sh) % (b * n) # 0 THEN Err
    ELSE Tensor(<<b, Prod(x.sh) \div (b * n), n>>, x.v)

\* x.permute(0, 2, 1)
Permute021(x) ==
    IF ~Is3d(x) THEN Err ELSE Tensor(<<x.sh[1], x.sh[3], x.sh[2]>>, <<"permute">> \o x.v)

\* torch.bmm(a, b)
Bmm(a, b) ==
    IF ~Is3d(a) \/ ~Is3d(b) THEN Err
    ELSE IF a.sh[1] # b.sh[1] \/ a.sh[3] # b.sh[2] THEN Err
    ELSE Tensor(<<a.sh[1], a.sh[2], b.sh[3]>>, <<"bmm">> \o a.v \o b.v)

\* ResidualBlock(dim_in=dim, dim_out=dim).forward: x + self.main(x)
ResidualBlock(name, dim, x) ==
    LET main == Conv2d("conv2", dim, dim, 3, 1, 1,
                       NormRelu("norm", Conv2d("conv1", dim, dim, 3, 1, 1, x)))
        sum == Elementwise("add", x, main)
    IN IF IsErr(sum) THEN Err ELSE Tensor(sum.sh, <<name>> \o x.v)

\* GetMatrix(256, 1).forward: the pair (gamma, beta) of return x, gamma, beta
GetMatrix(x) ==
    <<Conv2d("get_gamma", Dim256, 1, 1, 1, 0, x), Conv2d("get_beta", Dim256, 1, 1, 1, 0, x)>>

\* NONLocalBlock2D.forward(source, weight)
NONLocalForward(source, weight) ==
    IF ~Is4d(source) THEN Err
    ELSE LET batch_size == source.sh[1]
             \* source.view(batch_size, 1, -1)
             g_view == Tensor(<<batch_size, 1, Prod(source.sh) \div batch_size>>, source.v)
             g_source == Permute021(g_view)
             y == Permute021(Bmm(weight, g_source))
         IN IF IsErr(y) THEN Err
            \* y.view(batch_size, 1, *source.size()[2:])
            ELSE IF Prod(y.sh) # batch_size * source.sh[3] * source.sh[4] THEN Err
            ELSE Tensor(<<batch_size, 1, source.sh[3], source.sh[4]>>, y.v)

\* (x[0] + x[1] + x[2]).unsqueeze(0)
Sum3(x) ==
    IF ~Is4d(x) THEN Err
    ELSE IF x.sh[1] < 3 THEN Err
    ELSE Tensor(<<1, x.sh[2], x.sh[3], x.sh[4]>>, <<"sum3">> \o x.v)

\* Generator.atten_feature: the pair (gamma, beta)
atten_feature(mask_s, weight, gamma_s, beta_s) ==
    IF ~Is4d(gamma_s) THEN <<Err, Err>>
    ELSE LET channel_num == gamma_s.sh[2]
             mask_s_re == Repeat(Interpolate(mask_s, gamma_s.sh[3], gamma_s.sh[4]),
                                 1, channel_num)
             g_s == Elementwise("mul", Repeat(gamma_s, 3, 1), mask_s_re)
             b_s == Elementwise("mul", Repeat(beta_s, 3, 1), mask_s_re)
             g == NONLocalForward(g_s, weight)
             b == NONLocalForward(b_s, weight)
         IN IF IsErr(g) \/ IsErr(b) THEN <<Err, Err>> ELSE <<Sum3(g), Sum3(b)>>

\* Generator.get_weight, on shapes and terms
get_weight(mask_c, mask_s, fea_c, fea_s, diff_c, diff_s) ==
    IF ~Is4d(fea_s) THEN Err
    ELSE LET channel_num == fea_s.sh[2]
             mask_c_re == Repeat(Interpolate(mask_c, FeatSize, FeatSize), 1, channel_num)
             fc == Elementwise("mul", Repeat(fea_c, 3, 1), mask_c_re)
             mask_s_re == Repeat(Interpolate(mask_s, FeatSize, FeatSize), 1, channel_num)
             fs == Elementwise("mul", Repeat(fea_s, 3, 1), mask_s_re)
             theta_input == Cat1(Scale001(fc), diff_c)
             phi_input == Cat1(Scale001(fs), diff_s)
             theta_target == Permute021(View3(theta_input, BatchSize, HW))
             phi_source == View3(phi_input, BatchSize, HW)
             weight == Bmm(theta_target, phi_source)
         IN IF IsErr(weight) THEN Err
            ELSE Tensor(<<3, HW, HW>>, <<"sparse_softmax">> \o weight.v)


(***************************************************************************)
(* Generator.forward_atten.  The locals of the running call are gathered   *)
(* in a record; a stage appends its name to the trace when it is invoked   *)
(* and clears ok when the tensor operation under it raises.                *)
(***************************************************************************)
PnetDownName == <<"pnet_down_1", "pnet_down_2">>
TnetDownName == <<"tnet_down_1", "tnet_down_2">>
PnetBottleneckName == <<"pnet_bottleneck_1", "pnet_bottleneck_2", "pnet_bottleneck_3">>
TnetBottleneckName == <<"tnet_bottleneck_1", "tnet_bottleneck_2", "tnet_bottleneck_3",
                        "tnet_bottleneck_4", "tnet_bottleneck_5", "tnet_bottleneck_6">>
TnetUpName == <<"tnet_up_1", "tnet_up_2">>
\* curr_dim before down-sampling i (0-based): 64, 128
DownDim == <<Dim64, Dim128>>
\* curr_dim before up-sampling i (0-based): 256, 128
UpDim == <<Dim256, Dim128>>

Env == [s |-> s, c_tnet |-> c_tnet, gamma |-> gamma, beta |-> beta, weight |-> NoneT,
        trace |-> trace, ok |-> TRUE, returned |-> FALSE]

Failed(e) == IsErr(e.s) \/ IsErr(e.c_tnet) \/ IsErr(e.gamma) \/ IsErr(e.beta) \/ IsErr(e.weight)

\* run stage `name` with the locals it assigns, unless the call has already ended
Stage(e, name, upd) ==
    IF ~e.ok \/ e.returned THEN e
    ELSE LET e1 == [upd EXCEPT !.trace = Append(e.trace, name)]
         IN [e1 EXCEPT !.ok = ~Failed(e1)]

\* a style branch that runs whether or not gamma is supplied
StyleAlways(g) == TRUE

\* "gamma is None": the style branch is computed by this call
StyleActive(g) == g = NoneT

\* c_tnet = self.tnet_in_conv(c)
TnetInConv(e) ==
    Stage(e, "tnet_in_conv",
          [e EXCEPT !.c_tnet = Conv2d("tnet_in_conv", 3, Dim64, 7, 1, 3, args.c)])

\* s = self.pnet_in(s)
PnetIn(e) ==
    Stage(e, "pnet_in", [e EXCEPT !.s = ConvNormRelu("pnet_in", 3, Dim64, 7, 1, 3, e.s)])

\* c_tnet = self.tnet_in_spade(c_tnet); c_tnet = self.tnet_in_relu(c_tnet)
TnetInSpade(e) ==
    Stage(e, "tnet_in_spade", [e EXCEPT !.c_tnet = NormRelu("tnet_in_spade", e.c_tnet)])

\* if gamma is None: s = pnet_down_{k+1}(s)
PnetDown(e, k) ==
    IF ~StyleActive(e.gamma) THEN e
    ELSE Stage(e, PnetDownName[k + 1],
               [e EXCEPT !.s = ConvNormRelu(PnetDownName[k + 1], DownDim[k + 1],
                                            DownDim[k + 1] * 2, 4, 2, 1, e.s)])

\* c_tnet = tnet_down_conv, tnet_down_spade, tnet_down_relu {k+1}
TnetDown(e, k) ==
    Stage(e, TnetDownName[k + 1],
          [e EXCEPT !.c_tnet = ConvNormRelu(TnetDownName[k + 1], DownDim[k + 1],
                                            DownDim[k + 1] * 2, 4, 2, 1, e.c_tnet)])

\* if gamma is None and i <= 2: s = pnet_bottleneck_{k+1}(s)
PnetBottleneck(e, k) ==
    IF ~(StyleActive(e.gamma) /\ k <= 2) THEN e
    ELSE Stage(e, PnetBottleneckName[k + 1],
               [e EXCEPT !.s = ResidualBlock(PnetBottleneckName[k + 1], Dim256, e.s)])

\* c_tnet = tnet_bottleneck_{k+1}(c_tnet)
TnetBottleneck(e, k) ==
    Stage(e, TnetBottleneckName[k + 1],
          [e EXCEPT !.c_tnet = ResidualBlock(TnetBottleneckName[k + 1], Dim256, e.c_tnet)])

\* s, gamma, beta = self.simple_spade(s)
SimpleSpade(e) ==
    Stage(e, "simple_spade",
          [e EXCEPT !.gamma = GetMatrix(e.s)[1], !.beta = GetMatrix(e.s)[2]])

\* weight = self.get_weight(mask_c, mask_s, c_tnet, s, diff_c, diff_s)
GetWeight(e) ==
    Stage(e, "get_weight",
          [e EXCEPT !.weight = get_weight(args.mask_c, args.mask_s, e.c_tnet, e.s,
                                          args.diff_c, args.diff_s)])

\* gamma, beta = self.atten_feature(mask_s, weight, gamma, beta, ...)
AttenFeature(e) ==
    Stage(e, "atten_feature",
          [e EXCEPT !.gamma = atten_feature(args.mask_s, e.weight, e.gamma, e.beta)[1],
                    !.beta = atten_feature(args.mask_s, e.weight, e.gamma, e.beta)[2]])

\* a forward_atten that never reads ret
EarlyReturnIgnored(e) == e

\* if ret: return [gamma, beta]
EarlyReturn(e) ==
    IF e.ok /\ args.ret THEN [e EXCEPT !.returned = TRUE] ELSE e

\* c_tnet = c_tnet * (1 + gamma) + beta
Fusion(e) ==
    Stage(e, "fusion",
          [e EXCEPT !.c_tnet = Elementwise("add",
                                   Elementwise("mul", e.c_tnet,
                                       IF e.gamma = NoneT THEN Err
                                       ELSE Tensor(e.gamma.sh, <<"1+">> \o e.gamma.v)),
                                   e.beta)])

\* an "if i == 3" block whose "if ret" is outside of "if gamma is None"
FuseBlockRetOutside(e) ==
    IF StyleActive(e.gamma)
    THEN Fusion(EarlyReturn(AttenFeature(GetWeight(SimpleSpade(e)))))
    ELSE Fusion(EarlyReturn(e))

\* an "if i == 3" block that returns the makeup matrices before the attention
FuseBlockRetBeforeAttention(e) ==
    IF StyleActive(e.gamma)
    THEN Fusion(AttenFeature(GetWeight(EarlyReturn(SimpleSpade(e)))))
    ELSE Fusion(e)

\* the body of "if i == 3:"
FuseBlock(e) ==
    IF StyleActive(e.gamma)
    THEN Fusion(EarlyReturn(AttenFeature(GetWeight(SimpleSpade(e)))))
    ELSE Fusion(e)

\* tnet_up_conv, tnet_up_spade, tnet_up_relu {k+1}
TnetUp(e, k) ==
    Stage(e, TnetUpName[k + 1],
          [e EXCEPT !.c_tnet = NormRelu(TnetUpName[k + 1],
                                   ConvTranspose2d("conv", UpDim[k + 1], UpDim[k + 1] \div 2,
                                                   4, 2, 1, e.c_tnet))])

\* c_tnet = self.tnet_out(c_tnet): Conv2d(64, 3, 7, 1, 3) and Tanh
TnetOut(e) ==
    Stage(e, "tnet_out",
          [e EXCEPT !.c_tnet = NormRelu("tanh", Conv2d("tnet_out", Dim64, 3, 7, 1, 3, e.c_tnet))])


(***************************************************************************)
(* The arguments the calls are drawn from.                                 *)
(***************************************************************************)
NoResult == [kind |-> "none", val |-> <<>>]

\* image heights and widths of the "shapes" family
ImgSizes == {128, 255, 256, 257, 259, 260}
\* batch sizes of the "shapes" family
BatchSizes == {1, 2}
\* spatial sizes of the difference tensors of the "shapes" family
DiffSizes == {32, 64}

Image(n, h, w, name) == Tensor(<<n, 3, h, w>>, <<name>>)
Mask(h, w, name) == Tensor(<<3, 1, h, w>>, <<name>>)
Diff(d, name) == Tensor(<<3, DiffDim, d, d>>, <<name>>)
\* a gamma or beta as a ret=True call returns it: (1, 1, 64, 64)
Param(name) == Tensor(<<1, 1, FeatSize, FeatSize>>, <<name>>)

Args(c, s0, mask_c, mask_s, diff_c, diff_s, g, b, ret) ==
    [c |-> c, s |-> s0, mask_c |-> mask_c, mask_s |-> mask_s, diff_c |-> diff_c,
     diff_s |-> diff_s, gamma |-> g, beta |-> b, ret |-> ret]

\* the [gamma, beta] pairs earlier ret=True calls of the session returned
Cached == {h.result.val : h \in {x \in history : x.result.kind = "params"}}

ValueArgs ==
    {Args(Image(1, 256, 256, c), Image(1, 256, 256, a[1]), Mask(256, 256, a[2]),
          Mask(256, 256, a[3]), Diff(FeatSize, a[4]), Diff(FeatSize, a[5]), gb[1], gb[2], r) :
        c \in {"c1", "c2"},
        a \in {<<"s1", "mask_c1", "mask_s1", "diff_c1", "diff_s1">>,
               <<"s2", "mask_c2", "mask_s2", "diff_c2", "diff_s2">>},
        gb \in {<<NoneT, NoneT>>, <<Param("gamma_x"), Param("beta_x")>>} \cup Cached,
        r \in BOOLEAN}

ShapeArgs ==
    {Args(Image(n, h, w, "c"), Image(n, h, w, "s"), Mask(h, w, "mask_c"), Mask(h, w, "mask_s"),
          Diff(d, "diff_c"), Diff(d, "diff_s"), gb[1], gb[2], r) :
        n \in BatchSizes, h \in ImgSizes, w \in ImgSizes, d \in DiffSizes,
        gb \in {<<NoneT, NoneT>>, <<Param("gamma_x"), Param("beta_x")>>,
                <<Param("gamma_x"), NoneT>>},
        r \in BOOLEAN}

(***************************************************************************)
(* The actions of forward_atten.                                           *)
(***************************************************************************)
\* what the call returns when it ends with locals e
Outcome(e) ==
    IF ~e.ok THEN [kind |-> "raise", val |-> <<>>]
    ELSE IF e.returned THEN [kind |-> "params", val |-> <<e.gamma, e.beta>>]
    ELSE [kind |-> "image", val |-> <<e.c_tnet>>]

\* store the locals; the call ends when a stage raised, on return [gamma, beta],
\* and after the last stage (npc = "done")
Commit(e, npc, ni) ==
    LET ends == ~e.ok \/ e.returned \/ npc = "done" IN
    /\ s' = e.s
    /\ c_tnet' = e.c_tnet
    /\ gamma' = e.gamma
    /\ beta' = e.beta
    /\ trace' = e.trace
    /\ pc' = IF ends THEN "done" ELSE npc
    /\ i' = IF ends THEN 0 ELSE ni
    /\ result' = IF ends THEN Outcome(e) ELSE result
    /\ history' = IF ends /\ mode = "values"
                  THEN history \cup {[args |-> args, result |-> Outcome(e)]}
                  ELSE history
    /\ UNCHANGED <<mode, args>>
    /\ UNCHANGED staticVars

\* a call of forward_atten starts
Call ==
    /\ pc \in {"idle", "done"}
    /\ mode = "values" => Cardinality(history) < MaxCalls
    /\ \E a \in IF mode = "values" THEN ValueArgs ELSE ShapeArgs :
        /\ args' = a
        /\ s' = a.s
        /\ gamma' = a.gamma
        /\ beta' = a.beta
    /\ c_tnet' = NoneT
    /\ pc' = "in"
    /\ i' = 0
    /\ trace' = <<>>
    /\ result' = NoResult
    /\ UNCHANGED <<mode, history>>
    /\ UNCHANGED staticVars

\* the input stage
In ==
    /\ pc = "in"
    /\ Commit(TnetInSpade(PnetIn(TnetInConv(Env))), "down", 0)

\* one iteration of "for i in range(2)", down-sampling
Down ==
    /\ pc = "down"
    /\ Commit(TnetDown(PnetDown(Env, i), i), IF i = 1 THEN "bneck" ELSE "down",
              IF i = 1 THEN 0 ELSE i + 1)

\* a bottleneck loop whose fusion block is at i == 4
BottleneckFuseLate ==
    /\ pc = "bneck"
    /\ Commit(TnetBottleneck(PnetBottleneck(Env, i), i),
              IF i = 5 THEN "up" ELSE IF i = 3 THEN "fuse" ELSE "bneck",
              IF i = 5 THEN 0 ELSE i + 1)

\* one iteration of "for i in range(6)", without the "if i == 3" block
Bottleneck ==
    /\ pc = "bneck"
    /\ Commit(TnetBottleneck(PnetBottleneck(Env, i), i),
              IF i = 5 THEN "up" ELSE IF i = 2 THEN "fuse" ELSE "bneck",
              IF i = 5 THEN 0 ELSE i + 1)

\* the "if i == 3" block of the iteration i = 3
Fuse ==
    /\ pc = "fuse"
    /\ Commit(FuseBlock(Env), "bneck", i)

\* one iteration of "for i in range(2)", up-sampling
Up ==
    /\ pc = "up"
    /\ Commit(TnetUp(Env, i), IF i = 1 THEN "out" ELSE "up", IF i = 1 THEN 0 ELSE i + 1)

\* the output stage and "return c_tnet"
Out ==
    /\ pc = "out"
    /\ Commit(TnetOut(Env), "done", 0)

StaticIdle ==
    /\ st_fn = "none"
    /\ gw_in = <<>>
    /\ gw_out = {}
    /\ af_in = <<>>
    /\ af_out = <<>>

FwdInit(m) ==
    /\ mode = m
    /\ pc = "idle"
    /\ i = 0
    /\ args = Args(NoneT, NoneT, NoneT, NoneT, NoneT, NoneT, NoneT, NoneT, FALSE)
    /\ s = NoneT
    /\ c_tnet = NoneT
    /\ gamma = NoneT
    /\ beta = NoneT
    /\ trace = <<>>
    /\ result = NoResult
    /\ history = {}

Init == FwdInit("values") /\ StaticIdle
ShapeInit == FwdInit("shapes") /\ StaticIdle
StaticInit == FwdInit("static") /\ StaticIdle

Next == Call \/ In \/ Down \/ Bottleneck \/ Fuse \/ Up \/ Out

\* sessions of calls that differ in their values
Spec == Init /\ [][Next]_vars
\* single calls that differ in their shapes
ShapeSpec == ShapeInit /\ [][Next]_vars


(***************************************************************************)
(* Generator.get_weight on numbers.  The tensors are small: NPos spatial   *)
(* positions instead of 64 * 64, one feature channel and one difference    *)
(* channel; the masks are given at the resolution of the features, where   *)
(* F.interpolate leaves them as they are.  Features are multiples of 100,  *)
(* so that fea * 0.01 is exact, and exp(200 * r) is ExpBase^r: the weights *)
(* are exact fractions <<numerator, denominator>>.                         *)
(***************************************************************************)
Slots == 1..BatchSize
Positions == 1..NPos

RECURSIVE Pow(_, _)
Pow(b, n) == IF n = 0 THEN 1 ELSE b * Pow(b, n - 1)

RECURSIVE SumOver(_, _)
\* the sum of f[k] over the k of a finite set
SumOver(f, S) ==
    IF S = {} THEN 0 ELSE LET k == CHOOSE x \in S : TRUE IN f[k] + SumOver(f, S \ {k})

\* fea.repeat(3, 1, 1, 1) * mask_re, then * 0.01: the feature channel of theta / phi
MaskedFeature(fea, mask) ==
    [b \in Slots |-> [p \in Positions |-> (fea[p] * mask[b][p]) \div FeaDiv]]

\* weight = torch.bmm(theta_target, phi_source): the dot product over the channels of
\* torch.cat((fea * 0.01, diff), dim=1)
RawWeight(a) ==
    LET theta == MaskedFeature(a.fea_c, a.mask_c)
        phi == MaskedFeature(a.fea_s, a.mask_s)
    IN [b \in Slots |-> [r \in Positions |-> [q \in Positions |->
            theta[b][r] * phi[b][q] + a.diff_c[b][r] * a.diff_s[b][q]]]]

\* an index taken after the softmax, whose weights are all nonzero
NonzeroIndAfterSoftmax(w) == Slots \X Positions \X Positions

\* weight_ind = torch.LongTensor(weight.numpy().nonzero())
NonzeroInd(w) ==
    {x \in Slots \X Positions \X Positions : w[x[1]][x[2]][x[3]] # 0}

\* weight *= 200
Sharpened(w) ==
    [b \in Slots |-> [r \in Positions |-> [q \in Positions |-> w[b][r][q] * Sharpen]]]

\* exp(x - m) for logits that are multiples of 200
Exp(x, m) == Pow(ExpBase, (x - m) \div Sharpen)

\* F.softmax(row, dim=-1) of one row, as fractions
SoftmaxRow(row) ==
    LET m == CHOOSE x \in {row[q] : q \in Positions} : \A q \in Positions : x <= row[q]
        e == [q \in Positions |-> Exp(row[q], m)]
    IN [q \in Positions |-> <<e[q], SumOver(e, Positions)>>]

\* weight = F.softmax(weight, dim=-1)
Softmax(w) == [b \in Slots |-> [r \in Positions |-> SoftmaxRow(w[b][r])]]

\* weight[weight_ind[0], weight_ind[1], weight_ind[2]] and the sparse tensor of it
SparseOf(ind, w) ==
    {[b |-> x[1], r |-> x[2], q |-> x[3], num |-> w[x[1]][x[2]][x[3]][1],
      den |-> w[x[1]][x[2]][x[3]][2]] : x \in ind}

\* Generator.get_weight
get_weight_num(a) ==
    LET weight == RawWeight(a)
        weight_ind == NonzeroInd(weight)
    IN SparseOf(weight_ind, Softmax(Sharpened(weight)))

\* the mask of a region assignment: position p lies in region reg[p] (0: in none)
MaskOf(reg) == [b \in Slots |-> [p \in Positions |-> IF reg[p] = b THEN 1 ELSE 0]]
Regions == [Positions -> 0..BatchSize]
\* feature maps (one channel)
FeaC == {[p \in Positions |-> 100], [p \in Positions |-> IF p = 1 THEN -100 ELSE 100],
         [p \in Positions |-> IF p = 1 THEN 0 ELSE 100]}
FeaS == {[p \in Positions |-> 100], [p \in Positions |-> IF p = 1 THEN 100 ELSE -100]}
\* difference tensors (one channel, the same in every slot)
Diffs == {[b \in Slots |-> [p \in Positions |-> 0]],
          [b \in Slots |-> [p \in Positions |-> IF p = 1 THEN 1 ELSE 0]]}

WeightArgs ==
    {[mask_c |-> MaskOf(rc), mask_s |-> MaskOf(rs), fea_c |-> fc, fea_s |-> fs,
      diff_c |-> d, diff_s |-> d] :
        rc \in Regions, rs \in Regions, fc \in FeaC, fs \in FeaS, d \in Diffs}

\* atten_feature is called with gamma_s and beta_s of shape (1, C, H, W), a style mask
\* of shape (3, 1, m * H, m * W) and a weight of shape (3, H * W, H * W)
AttenArgs ==
    {[mask_s |-> Tensor(<<3, 1, m * h, m * w>>, <<"mask_s">>),
      weight |-> Tensor(<<3, h * w, h * w>>, <<"weight">>),
      gamma_s |-> Tensor(<<1, c, h, w>>, <<"gamma_s">>),
      beta_s |-> Tensor(<<1, c, h, w>>, <<"beta_s">>)] :
        c \in 1..MaxChan, h \in 1..3, w \in 1..3, m \in 1..2}

\* a call of the static method get_weight
CallGetWeight ==
    /\ st_fn = "none"
    /\ \E a \in WeightArgs :
        /\ gw_in' = a
        /\ gw_out' = get_weight_num(a)
    /\ st_fn' = "get_weight"
    /\ af_in' = <<>>
    /\ af_out' = <<>>
    /\ UNCHANGED fwdVars

\* a call of the static method atten_feature
CallAttenFeature ==
    /\ st_fn = "none"
    /\ \E a \in AttenArgs :
        /\ af_in' = a
        /\ af_out' = LET gb == atten_feature(a.mask_s, a.weight, a.gamma_s, a.beta_s)
                     IN IF IsErr(gb[1]) \/ IsErr(gb[2])
                        THEN [kind |-> "raise", val |-> <<>>]
                        ELSE [kind |-> "ok", val |-> gb]
    /\ st_fn' = "atten_feature"
    /\ gw_in' = <<>>
    /\ gw_out' = {}
    /\ UNCHANGED fwdVars

\* the caller drops the result of the static method
StaticReturn ==
    /\ st_fn # "none"
    /\ st_fn' = "none"
    /\ gw_in' = <<>>
    /\ gw_out' = {}
    /\ af_in' = <<>>
    /\ af_out' = <<>>
    /\ UNCHANGED fwdVars

StaticNext == CallGetWeight \/ CallAttenFeature \/ StaticReturn

\* calls of the static methods get_weight and atten_feature
StaticSpec == StaticInit /\ [][StaticNext]_vars

(***************************************************************************)
(* Properties of get_weight and atten_feature.                             *)
(***************************************************************************)
\* the raw similarity of content position r and style position q in slot b
RawSim(a, b, r, q) ==
    ((a.fea_c[r] * a.mask_c[b][r]) \div 100) * ((a.fea_s[q] * a.mask_s[b][q]) \div 100)
        + a.diff_c[b][r] * a.diff_s[b][q]

\* exp(200 * r) up to the factor exp(200), which cancels in the softmax
ExpSim(a, b, r, q) == Pow(ExpBase, RawSim(a, b, r, q) + 1)

RowEntries(b, r) == {e \in gw_out : e.b = b /\ e.r = r}

RECURSIVE SumFrac(_)
\* the sum of the fractions of a set of entries, as a fraction
SumFrac(S) ==
    IF S = {} THEN <<0, 1>>
    ELSE LET e == CHOOSE x \in S : TRUE
             rest == SumFrac(S \ {e})
         IN <<e.num * rest[2] + rest[1] * e.den, e.den * rest[2]>>

\* C6 (as stated): in every row with a retained entry the retained entries sum to 1.
C6_RetainedRowSumsToOne ==
    st_fn = "get_weight" =>
        \A b \in Slots, r \in Positions :
            RowEntries(b, r) # {} =>
                SumFrac(RowEntries(b, r))[1] = SumFrac(RowEntries(b, r))[2]

\* C9: the sparse result holds exactly the positions of nonzero raw similarity, each
\* once, with the softmax weight of the position over its full row: the positions of
\* zero similarity are in the denominator and not in the result.
C9_IndexBeforeSoftmax ==
    st_fn = "get_weight" =>
        /\ {<<e.b, e.r, e.q>> : e \in gw_out} =
              {x \in Slots \X Positions \X Positions : RawSim(gw_in, x[1], x[2], x[3]) # 0}
        /\ Cardinality(gw_out) = Cardinality({<<e.b, e.r, e.q>> : e \in gw_out})
        /\ \A e \in gw_out :
              e.num * SumOver([q \in Positions |-> ExpSim(gw_in, e.b, e.r, q)], Positions)
                  = e.den * ExpSim(gw_in, e.b, e.r, e.q)

\* a row with a retained entry and a dropped one, whose retained weight is below 1
C9_Witness ==
    /\ st_fn = "get_weight"
    /\ \E b \in Slots, r \in Positions :
          /\ RowEntries(b, r) # {}
          /\ \E q \in Positions : RawSim(gw_in, b, r, q) = 0
          /\ \A e \in RowEntries(b, r) : e.num < e.den

\* C7 (as stated): for gamma_s and beta_s of shape (1, C, H, W), a 3-region mask and a
\* (3, H*W, H*W) weight, atten_feature returns gamma and beta of shape (1, C, H, W).
C7_AnyChannelCount ==
    st_fn = "atten_feature" =>
        /\ af_out.kind = "ok"
        /\ af_out.val[1].sh = af_in.gamma_s.sh
        /\ af_out.val[2].sh = af_in.beta_s.sh

(***************************************************************************)
(* Properties of forward_atten.                                            *)
(***************************************************************************)
InTrace(n) == \E k \in 1..Len(trace) : trace[k] = n
Count(n) == Cardinality({k \in 1..Len(trace) : trace[k] = n})
Pos(n) == CHOOSE k \in 1..Len(trace) : trace[k] = n
Running == pc # "idle"
Returned == pc = "done" /\ result.kind # "raise"
Supplied == args.gamma # NoneT

\* the stages after the computation of gamma and beta
LaterStages == {"fusion", "tnet_bottleneck_4", "tnet_bottleneck_5", "tnet_bottleneck_6",
                "tnet_up_1", "tnet_up_2", "tnet_out"}
\* the stages of the style branch after its input stage, and the attention
StyleStages == {"pnet_down_1", "pnet_down_2", "pnet_bottleneck_1", "pnet_bottleneck_2",
                "pnet_bottleneck_3"}
AttentionStages == {"simple_spade", "get_weight", "atten_feature"}
\* the content branch of a call that returns an image
ContentStages == <<"tnet_in_conv", "tnet_in_spade", "tnet_down_1", "tnet_down_2",
                   "tnet_bottleneck_1", "tnet_bottleneck_2", "tnet_bottleneck_3", "fusion",
                   "tnet_bottleneck_4", "tnet_bottleneck_5", "tnet_bottleneck_6",
                   "tnet_up_1", "tnet_up_2", "tnet_out">>
IsContentStage(n) == \E k \in 1..Len(ContentStages) : ContentStages[k] = n
IsStyleStage(n) == n \in StyleStages
\* the last n elements of a sequence
Suffix(q, n) == SubSeq(q, Len(q) - n + 1, Len(q))

NoLaterStage == \A n \in LaterStages : ~InTrace(n)
ReturnsParams == result.kind = "params" /\ result.val = <<gamma, beta>> /\ Len(result.val) = 2

\* C1 (as stated): every call with ret=True runs no stage after the gamma/beta
\* computation and returns exactly the pair [gamma, beta].
C1_AnyRetCall ==
    (Running /\ args.ret) => (NoLaterStage /\ (Returned => ReturnsParams))

\* C1 (amended): every call with ret=True and gamma=None runs no stage after the
\* gamma/beta computation, and when it returns it returns exactly [gamma, beta];
\* with a supplied gamma, ret is not read.
C1_RetWithoutGamma ==
    (Running /\ args.ret /\ ~Supplied) => (NoLaterStage /\ (Returned => ReturnsParams))

C1_Witness ==
    /\ pc = "done" /\ args.ret /\ ~Supplied
    /\ result.kind = "params"
    /\ InTrace("atten_feature")

\* C2: in a call with a supplied gamma no style-branch stage after the input stage
\* and no attention method is invoked, the locals gamma and beta stay the supplied
\* ones, and the fusion is computed from them.
C2_MixSkipsStyle ==
    (Running /\ Supplied) =>
        /\ \A n \in StyleStages \cup AttentionStages : ~InTrace(n)
        /\ gamma = args.gamma /\ beta = args.beta
        /\ (pc = "bneck" /\ i = 3) =>
              /\ InTrace("fusion")
              /\ Suffix(c_tnet.v, 1 + Len(args.gamma.v) + Len(args.beta.v))
                     = <<"1+">> \o args.gamma.v \o args.beta.v

C2_Witness ==
    /\ pc = "done" /\ Supplied /\ result.kind = "image"
    /\ InTrace("fusion")

\* C3 (as stated): once the input stage has run, pnet_in has been applied to s if
\* and only if gamma is None.
C3_PnetInOnlyWithoutGamma ==
    (Running /\ pc # "in") => (InTrace("pnet_in") <=> ~Supplied)

\* C4: two finished calls with the same c and the same supplied gamma and beta have
\* the same result, whatever their s, masks, difference tensors and ret.
C4_MixDependsOnContentAndParams ==
    \A h1, h2 \in history :
        (/\ h1.args.gamma # NoneT
         /\ h1.args.c = h2.args.c
         /\ h1.args.gamma = h2.args.gamma
         /\ h1.args.beta = h2.args.beta)
        => h1.result = h2.result

C4_Witness ==
    \E h1, h2 \in history :
        /\ h1.args.gamma # NoneT
        /\ h1.args.c = h2.args.c /\ h1.args.gamma = h2.args.gamma /\ h1.args.beta = h2.args.beta
        /\ h1.args.s # h2.args.s /\ h1.args.mask_c # h2.args.mask_c
        /\ h1.args.mask_s # h2.args.mask_s /\ h1.args.diff_c # h2.args.diff_c
        /\ h1.args.diff_s # h2.args.diff_s /\ h1.args.ret # h2.args.ret
        /\ h1.result.kind = "image"

\* C8: in a call that returns an image the content branch is tnet_in, tnet_down_1..2,
\* tnet_bottleneck_1..3, the fusion (once), tnet_bottleneck_4..6, tnet_up_1..2,
\* tnet_out; when gamma is computed by the call, the style branch has run exactly
\* pnet_down_1..2 and pnet_bottleneck_1..3 after its input stage, each right before
\* the content branch's block of the same index, and all of them before the fusion.
C8_FusionPoint ==
    (pc = "done" /\ result.kind = "image") =>
        /\ SelectSeq(trace, IsContentStage) = ContentStages
        /\ Count("fusion") = 1
        /\ SelectSeq(trace, IsStyleStage) =
              IF Supplied THEN <<>> ELSE PnetDownName \o PnetBottleneckName
        /\ ~Supplied =>
              /\ \A k \in 1..2 : Pos(PnetDownName[k]) + 1 = Pos(TnetDownName[k])
              /\ \A k \in 1..3 : Pos(PnetBottleneckName[k]) + 1 = Pos(TnetBottleneckName[k])
              /\ \A n \in StyleStages : Pos(n) < Pos("fusion")

C8_Witness ==
    /\ pc = "done" /\ result.kind = "image" /\ ~Supplied
    /\ InTrace("pnet_bottleneck_3") /\ InTrace("fusion")

\* C10: a call with gamma=None and ret=True followed by a call with the same c and
\* the returned [gamma, beta] gives the image of the one call with gamma=None and
\* ret=False on the same arguments.
C10_CacheAndReplay ==
    \A a, b, f \in history :
        (/\ a.args.gamma = NoneT /\ a.args.ret /\ a.result.kind = "params"
         /\ b.args.c = a.args.c
         /\ b.args.gamma = a.result.val[1] /\ b.args.beta = a.result.val[2]
         /\ f.args = [a.args EXCEPT !.ret = FALSE])
        => (b.result.kind = "image" /\ b.result = f.result)

C10_Witness ==
    \E a, b, f \in history :
        /\ a.args.gamma = NoneT /\ a.args.ret /\ a.result.kind = "params"
        /\ b.args.c = a.args.c /\ b.args.s # a.args.s
        /\ b.args.gamma = a.result.val[1] /\ b.args.beta = a.result.val[2]
        /\ f.args = [a.args EXCEPT !.ret = FALSE]
        /\ f.result.kind = "image"

====
